---- MODULE Spec2Model ----
(***************************************************************************)
(* Model of src/neural/network_opencl.cc (Leela Chess Zero, OpenCL         *)
(* backend front end): the OpenCLNetwork constructor, which hands the      *)
(* network to the OpenCL backend layer by layer, and OpenCLComputation,    *)
(* the per-request batch that decodes input planes, calls the backend's    *)
(* forward pass once per sample and stores the policy and Q results.       *)
(***************************************************************************)
EXTENDS Integers, Sequences, FiniteSets, TLC

\* ------------------------------------------------------------- sizes
\* The number of input planes of a sample (112 in neural/network.h) and the
\* 64 squares of a plane's mask, both scaled down so that every sample can
\* be enumerated; the decoding loops are uniform in both.
kInputPlanes == 2
NumSquares == 2
\* The length of the policy output (weights.ip_pol_b.size(), 1858 in a real
\* network), scaled down.
num_output_policies == 2

\* Bounds of the model.
MaxBatch == 2
MaxCompute == 2
MaxBlocks == 2
MaxChannels == 3
MaxTile == 3

\* ------------------------------------------------------------- state
VARIABLES
  weights,        \* the Weights given to the constructor: channel and block counts
  sgemm_tuners,   \* what opencl_.get_sgemm_tuners() reports: mwg, kwg, vwm
  pc,             \* position of the OpenCLNetwork constructor
  i,              \* the constructor's residual block counter
  m_ceil,         \* constructor local: padded output-channel dimension
  k_ceil,         \* constructor local: padded input-channel dimension (input convolution)
  calls,          \* the backend calls made by the constructor, in order
  computation,    \* "none" | "live": the OpenCLComputation made by NewComputation
  planes_,        \* OpenCLComputation::planes_
  input_data_,    \* OpenCLComputation::input_data_ (reused across samples)
  value_data_,    \* OpenCLComputation::value_data_ (reused across samples)
  policy_data_,   \* OpenCLComputation::policy_data_
  q_value_,       \* OpenCLComputation::q_value_
  addInputCalls,  \* history: number of AddInput calls on the computation
  computeCalls,   \* history: number of ComputeBlocking calls on the computation
  batchAtCompute, \* history: GetBatchSize() when ComputeBlocking was last called, -1 before
  computeFailed,  \* history: the last ComputeBlocking call ended by a backend failure
  forwardLog,     \* history: the forward calls, each with its sample and the tensor passed
  lastRead        \* the last GetQVal / GetPVal call and its outcome

vars == <<weights, sgemm_tuners, pc, i, m_ceil, k_ceil, calls, computation,
          planes_, input_data_, value_data_, policy_data_, q_value_,
          addInputCalls, computeCalls, batchAtCompute, computeFailed,
          forwardLog, lastRead>>

netVars == <<weights, sgemm_tuners, pc, i, m_ceil, k_ceil, calls>>
sessionVars == <<computation, planes_, input_data_, value_data_, policy_data_,
                 q_value_, addInputCalls, computeCalls, batchAtCompute,
                 computeFailed, forwardLog>>

\* ------------------------------------------------------------- arithmetic
RECURSIVE Pow2(_)
Pow2(n) == IF n = 0 THEN 1 ELSE 2 * Pow2(n - 1)

\* a & b on non-negative integers.
RECURSIVE BitAnd(_, _)
BitAnd(a, b) ==
  IF a = 0 \/ b = 0 THEN 0
  ELSE (a % 2) * (b % 2) + 2 * BitAnd(a \div 2, b \div 2)

\* one << n.
Shl1(n) == Pow2(n)

\* The backend's rounding helper: the next multiple of b that is >= a.
ceilMultiple(a, b) == IF a % b = 0 THEN a ELSE a + (b - (a % b))

\* ------------------------------------------------------------- network construction
\* const auto inputChannels = static_cast<size_t>(kInputPlanes);
inputChannels == kInputPlanes

\* Mutant: the channel count is rounded to the vector width only.
MCeilVectorOnly(channels, mwg, vwm) == ceilMultiple(channels, vwm)

\* size_t m_ceil = ceilMultiple(ceilMultiple(channels, mwg), vwm);
MCeil(channels, mwg, vwm) == ceilMultiple(ceilMultiple(channels, mwg), vwm)

\* size_t k_ceil = ceilMultiple(ceilMultiple(inputChannels, kwg), vwm);
KCeil(inChannels, kwg, vwm) == ceilMultiple(ceilMultiple(inChannels, kwg), vwm)

\* One convolution filter as ZeropadU lays it out: `outputs` x `channels`
\* padded to `m_pad` x `k_pad`.
Filter(outputs, channels, m_pad, k_pad) ==
  [outputs |-> outputs, channels |-> channels, m_pad |-> m_pad, k_pad |-> k_pad]

NoFilter == Filter(0, 0, 0, 0)

BackendCall(name, block, conv1, conv2) ==
  [call |-> name, block |-> block, conv1 |-> conv1, conv2 |-> conv2]

\* opencl_.initialize(channels, params_); the tuners are read and the two
\* padded dimensions computed.
Initialize ==
  /\ pc = "initialize"
  /\ calls' = Append(calls, BackendCall("initialize", -1, NoFilter, NoFilter))
  /\ m_ceil' = MCeil(weights.channels, sgemm_tuners.mwg, sgemm_tuners.vwm)
  /\ k_ceil' = KCeil(inputChannels, sgemm_tuners.kwg, sgemm_tuners.vwm)
  /\ pc' = "input"
  /\ UNCHANGED <<weights, sgemm_tuners, i, lastRead>>
  /\ UNCHANGED sessionVars

\* Upad = ZeropadU(input_conv_weights, channels, inputChannels, m_ceil, k_ceil);
\* opencl_net_.push_input_convolution(...).
PushInputConvolution ==
  /\ pc = "input"
  /\ calls' = Append(calls,
                BackendCall("push_input_convolution", -1,
                            Filter(weights.channels, inputChannels, m_ceil, k_ceil),
                            NoFilter))
  /\ i' = 0
  /\ pc' = "residual"
  /\ UNCHANGED <<weights, sgemm_tuners, m_ceil, k_ceil, lastRead>>
  /\ UNCHANGED sessionVars

\* One turn of the residual loop: both filters are padded to m_ceil x m_ceil
\* and the block is pushed.
PushResidual ==
  /\ pc = "residual"
  /\ i < weights.residual_blocks
  /\ calls' = Append(calls,
                BackendCall("push_residual", i,
                            Filter(weights.channels, weights.channels, m_ceil, m_ceil),
                            Filter(weights.channels, weights.channels, m_ceil, m_ceil)))
  /\ i' = i + 1
  /\ UNCHANGED <<weights, sgemm_tuners, pc, m_ceil, k_ceil, lastRead>>
  /\ UNCHANGED sessionVars

\* Mutant: the policy head is pushed without waiting for the residual loop.
PushPolicyEarly ==
  /\ pc = "residual"
  /\ calls' = Append(calls, BackendCall("push_policy", -1, NoFilter, NoFilter))
  /\ pc' = "value"
  /\ UNCHANGED <<weights, sgemm_tuners, i, m_ceil, k_ceil, lastRead>>
  /\ UNCHANGED sessionVars

\* The loop has ended: opencl_net_.push_policy(...).
PushPolicy ==
  /\ pc = "residual"
  /\ ~(i < weights.residual_blocks)
  /\ calls' = Append(calls, BackendCall("push_policy", -1, NoFilter, NoFilter))
  /\ pc' = "value"
  /\ UNCHANGED <<weights, sgemm_tuners, i, m_ceil, k_ceil, lastRead>>
  /\ UNCHANGED sessionVars

\* opencl_net_.push_value(...); the constructor returns.
PushValue ==
  /\ pc = "value"
  /\ calls' = Append(calls, BackendCall("push_value", -1, NoFilter, NoFilter))
  /\ pc' = "constructed"
  /\ UNCHANGED <<weights, sgemm_tuners, i, m_ceil, k_ceil, lastRead>>
  /\ UNCHANGED sessionVars

\* ------------------------------------------------------------- samples
\* An InputPlane: a mask over the squares and the value of the set squares.
FillValues == {2}
InputPlaneSet == [mask : 0 .. (Pow2(NumSquares) - 1), value : FillValues]

\* InputPlanes: one plane per input channel.
Samples == [1 .. kInputPlanes -> InputPlaneSet]

ZeroSample == [p \in 1 .. kInputPlanes |-> [mask |-> 0, value |-> 2]]

\* ------------------------------------------------------------- backend and heads
\* The results of the backend and of the two output heads are kept symbolic:
\* each records what it was computed from.
Zeros(n) == [k \in 1 .. n |-> 0]

\* opencl_net_.forward(input_data_, policy_data, value_data_): the policy logits.
ForwardPolicy(input) ==
  [m \in 1 .. num_output_policies |-> [fn |-> "logit", move |-> m - 1, of |-> input]]

\* opencl_net_.forward(input_data_, policy_data, value_data_): the value head's hidden vector.
ForwardValue(input) == [fn |-> "value_hidden", of |-> input]

\* FullyConnectedLayer::Softmax(n, in, out).
Softmax(n, logits) == [m \in 1 .. n |-> [fn |-> "softmax", move |-> m - 1, of |-> logits]]

\* tanh(FullyConnectedLayer::Forward0D(n, ip2_val_w, value_data_) + ip2_val_b[0]).
QValue(value_data) == [fn |-> "tanh", of |-> value_data]

\* Where in a batch of n samples the backend's forward call may fail: at the
\* call for sample k in 1..n, or nowhere (0).
ForwardFailures(n) == 0 .. n

\* ------------------------------------------------------------- OpenCLComputation
\* Mutant: only the set squares are written, the others keep what the
\* buffer held.
WriteEntrySetOnly(data, index, plane, sq) ==
  IF BitAnd(plane.mask, Shl1(sq)) # 0
  THEN [data EXCEPT ![index + 1] = plane.value]
  ELSE data

\* input_data_[index++] = (plane.mask & (one << i)) != 0 ? value : 0;
WriteEntry(data, index, plane, sq) ==
  [data EXCEPT ![index + 1] =
     IF BitAnd(plane.mask, Shl1(sq)) # 0 THEN plane.value ELSE 0]

\* for (int i = 0; i < 64; i++) ...
RECURSIVE DecodePlane(_, _, _, _)
DecodePlane(data, plane, index, sq) ==
  IF sq >= NumSquares THEN data
  ELSE DecodePlane(WriteEntry(data, index, plane, sq), plane, index + 1, sq + 1)

\* int index = 0; for (const InputPlane& plane : sample) ...
RECURSIVE DecodeSample(_, _, _, _)
DecodeSample(data, sample, p, index) ==
  IF p > Len(sample) THEN data
  ELSE DecodeSample(DecodePlane(data, sample[p], index, 0), sample, p + 1,
                    index + NumSquares)

\* The buffers of a computation, as ComputeBlocking(sample) reads and writes them.
Buffers ==
  [input_data_ |-> input_data_, value_data_ |-> value_data_,
   policy_data_ |-> policy_data_, q_value_ |-> q_value_, forwardLog |-> forwardLog]

\* Mutant: the results of one sample are stored in front of the others.
StoreResultsInFront(b, policy, q) ==
  [b EXCEPT !.policy_data_ = <<policy>> \o b.policy_data_,
            !.q_value_ = <<q>> \o b.q_value_]

\* policy_data_.emplace_back(move(policy_data)); q_value_.emplace_back(...):
\* the results of one sample are stored behind those of the samples before it.
StoreResults(b, policy, q) ==
  [b EXCEPT !.policy_data_ = Append(b.policy_data_, policy),
            !.q_value_ = Append(b.q_value_, q)]

\* ComputeBlocking(const InputPlanes& sample); `ok` is whether forward returns.
ComputeSample(b, sample, ok) ==
  LET input == DecodeSample(b.input_data_, sample, 1, 0)
      called == [b EXCEPT !.input_data_ = input,
                          !.forwardLog = Append(b.forwardLog,
                                                [sample |-> sample, input |-> input])]
  IN  IF ~ok THEN called
      ELSE LET value_data == ForwardValue(input)
           IN  StoreResults([called EXCEPT !.value_data_ = value_data],
                            Softmax(num_output_policies, ForwardPolicy(input)),
                            QValue(value_data))

\* for (auto& sample : planes_) ComputeBlocking(sample); a failing forward
\* call ends the loop at sample failAt.
RECURSIVE ComputeLoop(_, _, _, _)
ComputeLoop(b, planes, k, failAt) ==
  IF k > Len(planes) THEN b
  ELSE IF k = failAt THEN ComputeSample(b, planes[k], FALSE)
  ELSE ComputeLoop(ComputeSample(b, planes[k], TRUE), planes, k + 1, failAt)

\* int GetBatchSize() const
GetBatchSize == Len(planes_)

NoValue == [fn |-> "none"]
NoRead == [fn |-> "none", sample |-> 0, move |-> 0, outcome |-> "none", val |-> NoValue]

\* A read outside a vector is undefined behaviour: the process may stop with
\* a fault or go on with whatever the memory holds.
crashed == lastRead.outcome = "fault"

\* A backend failure leaves ComputeBlocking by an exception and is fatal for
\* the computation: it is fed and computed no further, only read.
failed == computeFailed

\* std::make_unique<OpenCLComputation>(opencl_net_, weights_): the member
\* initialisers of OpenCLComputation.
NewComputation ==
  /\ pc = "constructed"
  /\ computation = "none"
  /\ computation' = "live"
  /\ planes_' = <<>>
  /\ input_data_' = Zeros(kInputPlanes * NumSquares)
  /\ value_data_' = [fn |-> "zeros", of |-> <<>>]
  /\ policy_data_' = <<>>
  /\ q_value_' = <<>>
  /\ UNCHANGED <<addInputCalls, computeCalls, batchAtCompute, computeFailed,
                 forwardLog, lastRead>>
  /\ UNCHANGED netVars

\* Mutant: a sample added after ComputeBlocking is dropped.
AddInputSealed(input) ==
  /\ computation = "live"
  /\ ~crashed
  /\ ~failed
  /\ addInputCalls < MaxBatch
  /\ planes_' = IF computeCalls > 0 THEN planes_ ELSE Append(planes_, input)
  /\ addInputCalls' = addInputCalls + 1
  /\ UNCHANGED <<computation, input_data_, value_data_, policy_data_, q_value_,
                 computeCalls, batchAtCompute, computeFailed, forwardLog, lastRead>>
  /\ UNCHANGED netVars

\* void AddInput(InputPlanes&& input)
AddInput(input) ==
  /\ computation = "live"
  /\ ~crashed
  /\ ~failed
  /\ addInputCalls < MaxBatch
  /\ planes_' = Append(planes_, input)
  /\ addInputCalls' = addInputCalls + 1
  /\ UNCHANGED <<computation, input_data_, value_data_, policy_data_, q_value_,
                 computeCalls, batchAtCompute, computeFailed, forwardLog, lastRead>>
  /\ UNCHANGED netVars

\* void ComputeBlocking()
ComputeBlocking ==
  /\ computation = "live"
  /\ ~crashed
  /\ ~failed
  /\ computeCalls < MaxCompute
  /\ \E failAt \in ForwardFailures(Len(planes_)) :
       LET b == ComputeLoop(Buffers, planes_, 1, failAt)
       IN  /\ input_data_' = b.input_data_
           /\ value_data_' = b.value_data_
           /\ policy_data_' = b.policy_data_
           /\ q_value_' = b.q_value_
           /\ forwardLog' = b.forwardLog
           /\ computeFailed' = (failAt # 0)
  /\ computeCalls' = computeCalls + 1
  /\ batchAtCompute' = GetBatchSize
  /\ UNCHANGED <<computation, planes_, addInputCalls, lastRead>>
  /\ UNCHANGED netVars

\* float GetQVal(int sample) const { return q_value_[sample]; }
GetQVal(sample) ==
  /\ computation = "live"
  /\ ~crashed
  /\ IF 0 <= sample /\ sample < Len(q_value_)
     THEN lastRead' = [fn |-> "GetQVal", sample |-> sample, move |-> 0,
                       outcome |-> "value", val |-> q_value_[sample + 1]]
     ELSE \E o \in {"fault", "garbage"} :
            lastRead' = [fn |-> "GetQVal", sample |-> sample, move |-> 0,
                         outcome |-> o, val |-> NoValue]
  /\ UNCHANGED sessionVars
  /\ UNCHANGED netVars

\* float GetPVal(int sample, int move_id) const { return policy_data_[sample][move_id]; }
GetPVal(sample, move_id) ==
  /\ computation = "live"
  /\ ~crashed
  /\ IF /\ 0 <= sample /\ sample < Len(policy_data_)
        /\ 0 <= move_id /\ move_id < Len(policy_data_[sample + 1])
     THEN lastRead' = [fn |-> "GetPVal", sample |-> sample, move |-> move_id,
                       outcome |-> "value",
                       val |-> policy_data_[sample + 1][move_id + 1]]
     ELSE \E o \in {"fault", "garbage"} :
            lastRead' = [fn |-> "GetPVal", sample |-> sample, move |-> move_id,
                         outcome |-> o, val |-> NoValue]
  /\ UNCHANGED sessionVars
  /\ UNCHANGED netVars

\* ------------------------------------------------------------- specifications
TunerSet == [mwg : 1 .. MaxTile, kwg : 1 .. MaxTile, vwm : 1 .. MaxTile]
WeightsSet == [channels : 1 .. MaxChannels, residual_blocks : 0 .. MaxBlocks]

\* Before the OpenCLNetwork constructor runs, for any weights and tuner values.
InitNet ==
  /\ weights \in WeightsSet
  /\ sgemm_tuners \in TunerSet
  /\ pc = "initialize"
  /\ i = 0
  /\ m_ceil = 0
  /\ k_ceil = 0
  /\ calls = <<>>
  /\ computation = "none"
  /\ planes_ = <<>>
  /\ input_data_ = <<>>
  /\ value_data_ = [fn |-> "zeros", of |-> <<>>]
  /\ policy_data_ = <<>>
  /\ q_value_ = <<>>
  /\ addInputCalls = 0
  /\ computeCalls = 0
  /\ batchAtCompute = -1
  /\ computeFailed = FALSE
  /\ forwardLog = <<>>
  /\ lastRead = NoRead

\* The computation reads neither the tuner values nor the channel count: the
\* specifications about it run on one network.
Init ==
  /\ InitNet
  /\ weights = [channels |-> 1, residual_blocks |-> 1]
  /\ sgemm_tuners = [mwg |-> 1, kwg |-> 1, vwm |-> 1]

Construct ==
  \/ Initialize
  \/ PushInputConvolution
  \/ PushResidual
  \/ PushPolicy
  \/ PushValue

\* The whole program: construction, then one computation and its calls.
Next ==
  \/ Construct
  \/ NewComputation
  \/ \E input \in Samples : AddInput(input)
  \/ ComputeBlocking
  \/ \E sample \in 0 .. MaxBatch : GetQVal(sample)
  \/ \E sample \in 0 .. MaxBatch, move_id \in 0 .. num_output_policies :
       GetPVal(sample, move_id)

Spec == Init /\ [][Next]_vars

\* The computation without its const accessors.
NextSession ==
  \/ Construct
  \/ NewComputation
  \/ \E input \in Samples : AddInput(input)
  \/ ComputeBlocking

SpecSession == Init /\ [][NextSession]_vars

\* Construction for every network and tuner values, then a computation fed
\* the all-zero sample.
NextNet ==
  \/ Construct
  \/ NewComputation
  \/ AddInput(ZeroSample)
  \/ ComputeBlocking

SpecNet == InitNet /\ [][NextNet]_vars

\* Every call of a computation, accessors included, on the all-zero sample.
NextCalls ==
  \/ Construct
  \/ NewComputation
  \/ AddInput(ZeroSample)
  \/ ComputeBlocking
  \/ \E sample \in 0 .. MaxBatch : GetQVal(sample)
  \/ \E sample \in 0 .. MaxBatch, move_id \in 0 .. num_output_policies :
       GetPVal(sample, move_id)

SpecCalls == Init /\ [][NextCalls]_vars

\* ------------------------------------------------------------- properties
\* The tensor a sample stands for: entry [c*NumSquares + sq] is the fill value
\* of plane c where bit sq of its mask is set, and 0 elsewhere.
BitSet(mask, sq) == (mask \div Pow2(sq)) % 2 = 1

TensorOf(sample) ==
  [k \in 1 .. (kInputPlanes * NumSquares) |->
     LET plane == sample[((k - 1) \div NumSquares) + 1]
     IN  IF BitSet(plane.mask, (k - 1) % NumSquares) THEN plane.value ELSE 0]

\* What a sample's results are when they come from the forward call on its
\* own tensor.
PolicyOf(sample) == Softmax(num_output_policies, ForwardPolicy(TensorOf(sample)))
QOf(sample) == QValue(ForwardValue(TensorOf(sample)))

\* C1: after n AddInput calls and then one ComputeBlocking call that
\* returned, the results read at every index n < batch size (GetQVal(n),
\* GetPVal(n, m)) are those of the forward call on the tensor of the n-th
\* sample added: results keep the insertion order.
C1_OrderPreserved ==
  (computation = "live" /\ computeCalls = 1 /\ ~computeFailed) =>
    /\ Len(q_value_) = batchAtCompute
    /\ Len(policy_data_) = batchAtCompute
    /\ \A n \in 0 .. (batchAtCompute - 1) :
         /\ q_value_[n + 1] = QOf(planes_[n + 1])
         /\ \A m \in 0 .. (num_output_policies - 1) :
              policy_data_[n + 1][m + 1] = PolicyOf(planes_[n + 1])[m + 1]

\* Two different samples were added and computed, and have different results.
C1_Witness ==
  /\ computeCalls = 1
  /\ ~computeFailed
  /\ batchAtCompute = 2
  /\ planes_[1] # planes_[2]
  /\ q_value_[1] # q_value_[2]
  /\ policy_data_[1] # policy_data_[2]

\* C2: GetBatchSize() is the number of AddInput calls made on the
\* computation, whatever was called in between.
C2_BatchSizeCountsAddInput ==
  computation = "live" => GetBatchSize = addInputCalls

\* Samples were added before and after a ComputeBlocking call, and a result
\* was read.
C2_Witness ==
  /\ computation = "live"
  /\ addInputCalls = 2
  /\ computeCalls >= 1
  /\ batchAtCompute = 1
  /\ lastRead.outcome = "value"

\* C3: once ComputeBlocking has been called, a later AddInput is rejected:
\* the sample list and the batch size stay what they were at that call.
C3_SealedAfterCompute ==
  (computation = "live" /\ computeCalls > 0) =>
    /\ GetBatchSize = batchAtCompute
    /\ addInputCalls = batchAtCompute

\* C4: GetQVal / GetPVal return a value only when ComputeBlocking has been
\* called and the sample index is below the batch size and the move index
\* below the number of policy outputs; otherwise the call fails fast.
C4_ReadsFailFast ==
  lastRead.outcome \in {"value", "garbage"} =>
    /\ computeCalls > 0
    /\ lastRead.sample < GetBatchSize
    /\ lastRead.move < num_output_policies

\* C5: when the backend's forward call fails during ComputeBlocking, the
\* computation exposes no results at all: never results for the samples
\* before the failing one only.
C5_NoPartialResults ==
  (computation = "live" /\ computeCalls = 1 /\ computeFailed) =>
    /\ Len(policy_data_) = 0
    /\ Len(q_value_) = 0

\* C6: the tensor passed to every forward call is the tensor of the sample
\* it is made for, entry by entry, whatever the reused input buffer held
\* from the samples before.
C6_DecodedTensor ==
  \A n \in 1 .. Len(forwardLog) :
    /\ Len(forwardLog[n].input) = kInputPlanes * NumSquares
    /\ \A c \in 0 .. (kInputPlanes - 1), sq \in 0 .. (NumSquares - 1) :
         forwardLog[n].input[c * NumSquares + sq + 1] =
           IF BitSet(forwardLog[n].sample[c + 1].mask, sq)
           THEN forwardLog[n].sample[c + 1].value
           ELSE 0

\* A forward call was made on a sample with a set square, while the buffer
\* held a set square of the sample before where this sample has none.
C6_Witness ==
  \E n \in 1 .. (Len(forwardLog) - 1) :
    /\ \E k \in 1 .. (kInputPlanes * NumSquares) :
         forwardLog[n].input[k] # 0 /\ forwardLog[n + 1].input[k] = 0
    /\ \E k \in 1 .. (kInputPlanes * NumSquares) : forwardLog[n + 1].input[k] # 0

\* The backend calls of a network with n residual blocks, in network order.
NetworkOrder(n) ==
  <<  <<"initialize", -1>>, <<"push_input_convolution", -1>> >>
  \o [b \in 1 .. n |-> <<"push_residual", b - 1>>]
  \o << <<"push_policy", -1>>, <<"push_value", -1>> >>

CallOrder == [k \in 1 .. Len(calls) |-> <<calls[k].call, calls[k].block>>]

\* C7: the constructor calls the backend in network order: initialize, one
\* push_input_convolution, one push_residual per block in block order,
\* push_policy, push_value; and no computation exists and no forward call
\* is made before push_value has returned.
C7_NetworkOrder ==
  /\ Len(CallOrder) <= Len(NetworkOrder(weights.residual_blocks))
  /\ CallOrder = SubSeq(NetworkOrder(weights.residual_blocks), 1, Len(CallOrder))
  /\ (pc = "constructed" \/ computation # "none" \/ forwardLog # <<>>) =>
       CallOrder = NetworkOrder(weights.residual_blocks)

\* A forward call was made on a network of two residual blocks.
C7_Witness ==
  /\ forwardLog # <<>>
  /\ weights.residual_blocks = 2

NextMultiple(a, t) == CHOOSE m \in a .. (a + t - 1) : m % t = 0

\* The convolution filters handed to the backend so far.
ConvFilters ==
  {calls[k].conv1 : k \in {j \in 1 .. Len(calls) :
                             calls[j].call \in {"push_input_convolution", "push_residual"}}}
  \cup {calls[k].conv2 : k \in {j \in 1 .. Len(calls) : calls[j].call = "push_residual"}}

\* C9: every convolution filter handed to the backend has its input-channel
\* dimension padded to the next multiple of the K-tile size kwg and its
\* output-channel dimension to the next multiple of the M-tile size mwg.
\* Stated for tuner values whose vector width divides both tile sizes, where
\* rounding to the vector width after the tile size changes nothing.
C9_PaddedToTiles ==
  (sgemm_tuners.mwg % sgemm_tuners.vwm = 0 /\ sgemm_tuners.kwg % sgemm_tuners.vwm = 0) =>
    \A f \in ConvFilters :
      /\ f.k_pad = NextMultiple(f.channels, sgemm_tuners.kwg)
      /\ f.m_pad = NextMultiple(f.outputs, sgemm_tuners.mwg)

\* C10: there are as many policy vectors as Q values, and once
\* ComputeBlocking has been called, as many as GetBatchSize(): one forward
\* call per sample, none on an empty computation, and no further results
\* from a repeated ComputeBlocking. Stated for runs without backend failure.
C10_OneResultPerSample ==
  (computation = "live" /\ ~computeFailed) =>
    /\ Len(policy_data_) = Len(q_value_)
    /\ computeCalls > 0 => /\ Len(policy_data_) = GetBatchSize
                           /\ Len(forwardLog) = GetBatchSize

====
